---- MODULE Spec2Model ----
(***************************************************************************)
(* Model of frontend/src/App.js: the root view selector, the two copies of *)
(* the session state (App and AuthProvider), the login view, the public    *)
(* view with its branch cards, and the admin dashboard with its three      *)
(* management views.  Every axios call is a message in `net`; the backend  *)
(* answers it in a separate step, and the response is delivered to the     *)
(* awaiting handler in a third step, so that requests complete in any      *)
(* order.                                                                  *)
(***************************************************************************)
EXTENDS Integers, Sequences, FiniteSets, Bags, TLC

(* ------------------------------ bounds --------------------------------- *)
MaxClicks == 2        \* clicks on branch-card buttons in one run
MaxCalls == 1         \* create/update/delete calls the admin makes in one run
MaxMemberCalls == 2   \* ... in a run on the members view alone
MaxMembers == 2       \* members the backend holds when the public view loads

(* --------------------------- program values ---------------------------- *)
Null == "null"                       \* JavaScript null / absent storage key
Tokens == {"t1"}                     \* access tokens the backend may issue
StaleTokens == {"t0"}                \* a token left in storage by an earlier visit
BranchTypes == <<"meute", "troupe", "compagnie", "clan">>
BranchKeys == {BranchTypes[i] : i \in DOMAIN BranchTypes}
RecentLimit == 5
LoginErrorMessage == "Nom d'utilisateur ou mot de passe incorrect"

VARIABLES
  \* browser storage, AuthProvider state, App state
  localStorage, token, authIsAuthenticated, view, isAuthenticated,
  \* AdminLogin state
  credentials, loading, error,
  \* requests in flight and backend data
  net, beMembers, beActivities, beProject, nextMemberId, nextActivityId,
  \* PublicHome state and the position of its loadData
  branches, organs, memberCounts, project, recentActivities, loadDataPc, issued,
  \* BranchCard state, per branch type
  showMembers, cardMembers, showActivities, branchActivities,
  clicks, fetches, succeeded,
  \* AdminDashboard state
  activeTab, stats, members, activities, adminProject,
  \* MembersManagement, ActivitiesManagement and ProjectManagement state
  mShowForm, editingMember, mFormData,
  aShowForm, editingActivity, aFormData,
  pFormData, pLoading, lastAlert, lastConfirm,
  \* whether 'add' was clicked since the form was last opened by edit or reset
  mAddClicked, aAddClicked,
  \* mutation calls made so far, and how many a run may make
  calls, budget

sessionVars == <<localStorage, token, authIsAuthenticated, view, isAuthenticated>>
loginVars == <<credentials, loading, error>>
backendVars == <<beMembers, beActivities, beProject, nextMemberId, nextActivityId>>
homeVars == <<branches, organs, memberCounts, project, recentActivities>>
cardVars == <<showMembers, cardMembers, showActivities, branchActivities>>
historyVars == <<clicks, fetches, succeeded>>
publicVars == <<homeVars, loadDataPc, issued, cardVars, historyVars>>
dashVars == <<activeTab, stats, members, activities, adminProject>>
membersVars == <<mShowForm, editingMember, mFormData, mAddClicked>>
activitiesVars == <<aShowForm, editingActivity, aFormData, aAddClicked>>
projectVars == <<pFormData, pLoading, lastAlert>>
dialogVars == <<lastConfirm, calls, budget>>
adminVars == <<dashVars, membersVars, activitiesVars, projectVars, dialogVars>>
vars == <<sessionVars, loginVars, net, backendVars, publicVars, adminVars>>

(* ------------------------------ requests ------------------------------- *)
NoAuth == <<>>
Bearer(tok) == <<"Bearer", tok>>     \* `Bearer ${localStorage.getItem(..)}`
NoBody == [none |-> TRUE]
NoResp == [none |-> TRUE]
NullRecord == [null |-> TRUE]        \* null where a record is expected
\* axios rejects the call: the request did not get through, or the backend
\* answered with a non-2xx status
Fails(m) == m.stage = "replied" => ~m.resp.ok

Request(kind, method, path, auth, body) ==
  [kind |-> kind, method |-> method, path |-> path, auth |-> auth,
   body |-> body, stage |-> "sent", resp |-> NoResp, live |-> TRUE]

Send(bag, m) == bag (+) SetToBag({m})
Drop(bag, m) == bag (-) SetToBag({m})
InFlight(kinds) == {m \in BagToSet(net) : m.kind \in kinds}
RECURSIVE Copies(_, _)
\* how many requests of the set S are in the bag
Copies(bag, S) ==
  IF S = {} THEN 0
  ELSE LET m == CHOOSE x \in S : TRUE IN bag[m] + Copies(bag, S \ {m})
\* The component awaiting the requests of `kinds` is unmounted: the requests
\* stay in flight, but the state setters of their continuations become no-ops.
Orphaned(m, kinds) == IF m.kind \in kinds THEN [m EXCEPT !.live = FALSE] ELSE m
Orphan(bag, kinds) ==
  LET S == BagToSet(bag)
      T == {Orphaned(m, kinds) : m \in S}
  IN [r \in T |-> Copies(bag, {m \in S : Orphaned(m, kinds) = r})]

(* -------------------------------- data --------------------------------- *)
Range(f) == {f[i] : i \in DOMAIN f}

RECURSIVE Filter(_, _)
\* Array.prototype.filter with the predicate "field branch equals b"
Filter(list, b) ==
  IF list = <<>> THEN <<>>
  ELSE IF Head(list).branch = b THEN <<Head(list)>> \o Filter(Tail(list), b)
       ELSE Filter(Tail(list), b)

\* Array.prototype.slice(0, n)
Slice(list, n) == SubSeq(list, 1, IF Len(list) < n THEN Len(list) ELSE n)

NaN == -1
RECURSIVE ParseInt(_)
\* parseInt of a string of decimal digits (NaN for the empty string)
ParseInt(digits) ==
  IF digits = <<>> THEN NaN
  ELSE IF Len(digits) = 1 THEN digits[1]
       ELSE 10 * ParseInt(SubSeq(digits, 1, Len(digits) - 1)) + digits[Len(digits)]

RECURSIVE NumberToString(_)
\* Number.prototype.toString of a non-negative integer, as its decimal digits
NumberToString(n) == IF n < 10 THEN <<n>> ELSE NumberToString(n \div 10) \o <<n % 10>>

\* new Date("YYYY-MM-DD").toISOString(): midnight UTC of that day
ToISOString(date) == date \o <<0, 0, 0, 0>>
\* isoString.split('T')[0]: the date part of an ISO timestamp
DatePart(iso) == SubSeq(iso, 1, 3)
\* value || null and value || '' for the optional select fields
OrNull(value) == IF value = "" THEN Null ELSE value
OrEmpty(value) == IF value = Null THEN "" ELSE value

BlankMemberForm == [nom |-> "", prenom |-> "", age |-> <<>>, branch |-> "meute"]
BlankActivityForm ==
  [titre |-> "", description |-> "", date_activite |-> <<>>,
   branch |-> "", organ |-> "", lieu |-> ""]
BlankProject == [titre |-> "", contenu |-> ""]

\* what the admin types into the forms
MemberInputs ==
  {[nom |-> "Dupont", prenom |-> "Jean", age |-> <<1, 0>>, branch |-> "troupe"]}
ActivityInputs ==
  {[titre |-> "Camp", description |-> "Camp d'ete", date_activite |-> <<2024, 7, 1>>,
    branch |-> "", organ |-> "", lieu |-> ""]}
ProjectInputs == {[titre |-> "X", contenu |-> "A\nB"]}

(* ------------------------------- backend ------------------------------- *)
BackendBranches == [i \in DOMAIN BranchTypes |-> [type |-> BranchTypes[i]]]
BackendOrgans == <<[type |-> "maitrise"]>>
SeedMember == [id |-> 1, nom |-> "Martin", prenom |-> "Luc", age |-> 9, branch |-> "meute"]
SeedActivity ==
  [id |-> 1, titre |-> "Sortie", description |-> "Sortie en foret",
   date_activite |-> <<2024, 5, 4, 0, 0, 0, 0>>, branch |-> "meute",
   organ |-> Null, lieu |-> Null]
SeedProject == [titre |-> "Projet", contenu |-> "P"]

HasId(list, id) == \E i \in DOMAIN list : list[i].id = id
\* the list with the entry `id` replaced by `entry`
Replace(list, id, entry) ==
  [i \in DOMAIN list |-> IF list[i].id = id THEN entry ELSE list[i]]
RECURSIVE Remove(_, _)
Remove(list, id) ==
  IF list = <<>> THEN <<>>
  ELSE IF Head(list).id = id THEN Remove(Tail(list), id)
       ELSE <<Head(list)>> \o Remove(Tail(list), id)
WithId(body, id) == [f \in DOMAIN body \cup {"id"} |-> IF f = "id" THEN id ELSE body[f]]

CountsByBranch(list) == [b \in BranchKeys |-> Len(Filter(list, b))]

\* a 2xx response carrying a list, or a single object
OkList(list) == [ok |-> TRUE, list |-> list]
OkItem(item) == [ok |-> TRUE, item |-> item]
Rejected == [ok |-> FALSE]
Authorized(m) == \E t \in Tokens \cup StaleTokens : m.auth = Bearer(t)

\* the response body of request m against the current backend data
Reply(m) ==
  CASE m.method = "GET" /\ m.path = <<"branches">> ->
         OkItem([branches |-> BackendBranches, organs |-> BackendOrgans])
    [] m.method = "GET" /\ m.path = <<"members">> -> OkList(beMembers)
    [] m.method = "GET" /\ m.path = <<"activities">> -> OkList(beActivities)
    [] m.method = "GET" /\ m.path = <<"project">> -> OkItem(beProject)
    [] m.method = "GET" /\ Len(m.path) = 2 /\ m.path[1] = "members" ->
         OkList(Filter(beMembers, m.path[2]))
    [] m.method = "GET" /\ Len(m.path) = 2 /\ m.path[1] = "activities" ->
         OkList(Filter(beActivities, m.path[2]))
    [] ~Authorized(m) -> Rejected
    [] m.method = "GET" /\ m.path = <<"admin", "stats">> ->
         OkItem([members_by_branch |-> CountsByBranch(beMembers)])
    [] m.method = "POST" /\ m.path = <<"admin", "members">> ->
         OkItem(WithId(m.body, nextMemberId))
    [] m.method = "POST" /\ m.path = <<"admin", "activities">> ->
         OkItem(WithId(m.body, nextActivityId))
    [] m.method = "PUT" /\ m.path = <<"admin", "project">> -> OkItem(m.body)
    [] m.method \in {"PUT", "DELETE"} /\ Len(m.path) = 3 /\ m.path[2] = "members" ->
         IF HasId(beMembers, m.path[3]) THEN OkItem(WithId(m.body, m.path[3])) ELSE Rejected
    [] m.method \in {"PUT", "DELETE"} /\ Len(m.path) = 3 /\ m.path[2] = "activities" ->
         IF HasId(beActivities, m.path[3]) THEN OkItem(WithId(m.body, m.path[3])) ELSE Rejected

\* the backend processes request m: it updates its data and prepares the response
ServerHandle(m) ==
  /\ m \in BagToSet(net) /\ m.stage = "sent" /\ m.kind # "login"
  /\ LET r == Reply(m) IN
     /\ net' = Send(Drop(net, m), [m EXCEPT !.stage = "replied", !.resp = r])
     /\ IF ~r.ok \/ m.method = "GET"
        THEN UNCHANGED backendVars
        ELSE IF m.path = <<"admin", "project">>
        THEN beProject' = m.body /\
             UNCHANGED <<beMembers, beActivities, nextMemberId, nextActivityId>>
        ELSE IF m.path[2] = "members"
        THEN /\ beMembers' = CASE m.method = "POST" -> Append(beMembers, r.item)
                               [] m.method = "PUT" -> Replace(beMembers, m.path[3], r.item)
                               [] m.method = "DELETE" -> Remove(beMembers, m.path[3])
             /\ nextMemberId' = IF m.method = "POST" THEN nextMemberId + 1 ELSE nextMemberId
             /\ UNCHANGED <<beActivities, beProject, nextActivityId>>
        ELSE /\ beActivities' =
                  CASE m.method = "POST" -> Append(beActivities, r.item)
                    [] m.method = "PUT" -> Replace(beActivities, m.path[3], r.item)
                    [] m.method = "DELETE" -> Remove(beActivities, m.path[3])
             /\ nextActivityId' =
                  IF m.method = "POST" THEN nextActivityId + 1 ELSE nextActivityId
             /\ UNCHANGED <<beMembers, beProject, nextMemberId>>
  /\ UNCHANGED <<sessionVars, loginVars, publicVars, adminVars>>

\* the backend answers a login request: a fresh token, or a rejection
ServerLogin(m) ==
  /\ m \in BagToSet(net) /\ m.stage = "sent" /\ m.kind = "login"
  /\ \E r \in {Rejected} \cup {OkItem([access_token |-> t]) : t \in Tokens} :
       net' = Send(Drop(net, m), [m EXCEPT !.stage = "replied", !.resp = r])
  /\ UNCHANGED <<sessionVars, loginVars, backendVars, publicVars, adminVars>>

(* --------------------------- initial state ----------------------------- *)
BlankCredentials == [username |-> "", password |-> ""]
CredentialInputs == {[username |-> "admin", password |-> "secret"]}
Buttons == BranchKeys \X {"members", "activities"}

\* useState initial values of AdminLogin, and the component being mounted
LoginMounted ==
  /\ credentials = BlankCredentials
  /\ loading = FALSE
  /\ error = ""
MountLogin ==
  /\ credentials' = BlankCredentials
  /\ loading' = FALSE
  /\ error' = ""

\* useState initial values of PublicHome and of its BranchCards
NoCounts == <<>>
AllHidden == [b \in BranchKeys |-> FALSE]
AllEmpty == [b \in BranchKeys |-> <<>>]
HomeMounted ==
  /\ branches = <<>>
  /\ organs = <<>>
  /\ memberCounts = NoCounts
  /\ project = NullRecord
  /\ recentActivities = <<>>
  /\ showMembers = AllHidden
  /\ cardMembers = AllEmpty
  /\ showActivities = AllHidden
  /\ branchActivities = AllEmpty
\* PublicHome unmounted: its state and that of its cards is discarded
UnmountHome ==
  /\ branches' = <<>>
  /\ organs' = <<>>
  /\ memberCounts' = NoCounts
  /\ project' = NullRecord
  /\ recentActivities' = <<>>
  /\ showMembers' = AllHidden
  /\ cardMembers' = AllEmpty
  /\ showActivities' = AllHidden
  /\ branchActivities' = AllEmpty

\* useState initial values of the management views and of AdminDashboard
MembersMounted ==
  /\ mShowForm = FALSE
  /\ editingMember = NullRecord
  /\ mFormData = BlankMemberForm
  /\ mAddClicked = FALSE
MountMembers ==
  /\ mShowForm' = FALSE
  /\ editingMember' = NullRecord
  /\ mFormData' = BlankMemberForm
  /\ mAddClicked' = FALSE
ActivitiesMounted ==
  /\ aShowForm = FALSE
  /\ editingActivity = NullRecord
  /\ aFormData = BlankActivityForm
  /\ aAddClicked = FALSE
MountActivities ==
  /\ aShowForm' = FALSE
  /\ editingActivity' = NullRecord
  /\ aFormData' = BlankActivityForm
  /\ aAddClicked' = FALSE
ProjectMounted ==
  /\ pFormData = BlankProject
  /\ pLoading = FALSE
DashboardMounted ==
  /\ activeTab = "dashboard"
  /\ stats = NullRecord
  /\ members = <<>>
  /\ activities = <<>>
  /\ adminProject = BlankProject

\* the four requests of PublicHome.loadData, in the order it awaits them
LoadDataOrder == <<"branches", "members", "project", "activities">>
LoadDataRequest(what) == Request("home", "GET", <<what>>, NoAuth, NoBody)

\* App and AuthProvider read the stored token once, when the page loads
Init ==
  /\ localStorage \in StaleTokens \cup {Null}
  /\ token = localStorage
  /\ authIsAuthenticated = (token # Null)
  /\ view = "public"
  /\ isAuthenticated = (localStorage # Null)
  /\ LoginMounted
  /\ HomeMounted
  /\ net = SetToBag({LoadDataRequest("branches")})
  /\ loadDataPc = "branches"
  /\ issued = {"branches"}
  /\ clicks = [b \in Buttons |-> 0]
  /\ fetches = [b \in Buttons |-> 0]
  /\ succeeded = [b \in Buttons |-> 0]
  /\ beMembers = <<SeedMember>>
  /\ beActivities = <<SeedActivity>>
  /\ beProject = SeedProject
  /\ nextMemberId = 2
  /\ nextActivityId = 2
  /\ DashboardMounted
  /\ MembersMounted
  /\ ActivitiesMounted
  /\ ProjectMounted
  /\ lastAlert = ""
  /\ lastConfirm = "none"
  /\ calls = 0
  /\ budget = MaxCalls

(* ------------------------- App and AuthProvider ------------------------ *)
\* an admin click that skips the login view when a token was stored at load
HandleAdminClickSkipsLogin ==
  /\ view = "public"
  /\ view' = IF isAuthenticated THEN "admin" ELSE "login"
  /\ UnmountHome
  /\ MountLogin
  /\ net' = Orphan(net, {"home", "card"})
  /\ UNCHANGED <<localStorage, token, authIsAuthenticated, isAuthenticated>>
  /\ UNCHANGED <<backendVars, loadDataPc, issued, historyVars, adminVars>>

\* App.handleAdminClick: PublicHome is replaced by AdminLogin
HandleAdminClick ==
  /\ view = "public"
  /\ view' = "login"
  /\ UnmountHome
  /\ MountLogin
  /\ net' = Orphan(net, {"home", "card"})
  /\ UNCHANGED <<localStorage, token, authIsAuthenticated, isAuthenticated>>
  /\ UNCHANGED <<backendVars, loadDataPc, issued, historyVars, adminVars>>

\* App.handleLogin
HandleLogin(newToken) ==
  /\ localStorage' = newToken
  /\ isAuthenticated' = TRUE
  /\ view' = "admin"
  /\ UNCHANGED <<token, authIsAuthenticated>>

\* AuthProvider.logout, the onClick of the dashboard's logout button
Logout ==
  /\ view = "admin" /\ isAuthenticated
  /\ localStorage' = Null
  /\ token' = Null
  /\ authIsAuthenticated' = FALSE
  /\ UNCHANGED <<view, isAuthenticated>>
  /\ UNCHANGED <<loginVars, net, backendVars, publicVars, adminVars>>

(* ------------------------------ AdminLogin ----------------------------- *)
\* the onChange handlers of the two required inputs
ChangeCredentials(c) ==
  /\ view = "login"
  /\ credentials # c
  /\ credentials' = c
  /\ UNCHANGED <<loading, error, sessionVars, net, backendVars, publicVars, adminVars>>

\* a submit button that is never disabled
LoginSubmitAlways == TRUE
\* the submit button is disabled while loading
LoginSubmitEnabled == ~loading

\* a mount effect that leaves out loadStats
MountRequestsNoStats(stored) ==
  SetToBag({Request("members", "GET", <<"members">>, NoAuth, NoBody),
            Request("activities", "GET", <<"activities">>, NoAuth, NoBody),
            Request("project", "GET", <<"project">>, NoAuth, NoBody)})

\* the four requests of AdminDashboard's mount effect
MountRequests(stored) ==
  SetToBag({Request("stats", "GET", <<"admin", "stats">>, Bearer(stored), NoBody),
            Request("members", "GET", <<"members">>, NoAuth, NoBody),
            Request("activities", "GET", <<"activities">>, NoAuth, NoBody),
            Request("project", "GET", <<"project">>, NoAuth, NoBody)})

\* AdminLogin.handleLogin up to its await
SubmitLogin ==
  /\ view = "login"
  /\ LoginSubmitEnabled
  /\ credentials.username # "" /\ credentials.password # ""
  /\ loading' = TRUE
  /\ error' = ""
  /\ net' = Send(net, Request("login", "POST", <<"auth", "login">>, NoAuth, credentials))
  /\ UNCHANGED <<credentials, sessionVars, backendVars, publicVars, adminVars>>

\* AdminLogin.handleLogin after its await resolved: onLogin, then finally.
\* The switch to 'admin' unmounts AdminLogin and mounts AdminDashboard.
LoginResolved(m) ==
  /\ m \in BagToSet(net) /\ m.kind = "login" /\ m.stage = "replied" /\ m.resp.ok
  /\ HandleLogin(m.resp.item.access_token)
  /\ MountLogin
  /\ IF view = "admin"
     THEN net' = Drop(net, m)
     ELSE net' = Orphan(Drop(net, m), {"login"}) (+) MountRequests(localStorage')
  /\ UNCHANGED <<backendVars, publicVars, adminVars>>

\* a handler without its finally block: the error is shown, loading stays set
LoginRejectedNoFinally(m) ==
  /\ m \in BagToSet(net) /\ m.kind = "login" /\ Fails(m)
  /\ net' = Drop(net, m)
  /\ IF m.live THEN error' = LoginErrorMessage ELSE UNCHANGED error
  /\ UNCHANGED <<loading, credentials, sessionVars, backendVars, publicVars, adminVars>>

\* AdminLogin.handleLogin after its await rejected: catch, then finally
LoginRejected(m) ==
  /\ m \in BagToSet(net) /\ m.kind = "login" /\ Fails(m)
  /\ net' = Drop(net, m)
  /\ IF m.live
     THEN error' = LoginErrorMessage /\ loading' = FALSE
     ELSE UNCHANGED <<loading, error>>
  /\ UNCHANGED <<credentials, sessionVars, backendVars, publicVars, adminVars>>

(* ------------------------------ PublicHome ----------------------------- *)
\* the request loadData awaits after `what`, if any
NextLoad(what) ==
  CASE what = "branches" -> "members"
    [] what = "members" -> "project"
    [] what = "project" -> "activities"
    [] what = "activities" -> "done"

\* counts that take every member for every branch
CountMembersAll(list) == [b \in BranchKeys |-> Len(list)]
\* the `counts` object loadData builds from the fetched member list
CountMembers(list) == [b \in BranchKeys |-> Len(Filter(list, b))]

\* the setState calls of loadData for the response to `what` (no-ops once
\* PublicHome is unmounted)
ApplyLoad(what, resp, live) ==
  IF ~live THEN UNCHANGED homeVars
  ELSE CASE what = "branches" ->
              /\ branches' = resp.item.branches
              /\ organs' = resp.item.organs
              /\ UNCHANGED <<memberCounts, project, recentActivities>>
         [] what = "members" ->
              /\ memberCounts' = CountMembers(resp.list)
              /\ UNCHANGED <<branches, organs, project, recentActivities>>
         [] what = "project" ->
              /\ project' = resp.item
              /\ UNCHANGED <<branches, organs, memberCounts, recentActivities>>
         [] what = "activities" ->
              /\ recentActivities' = Slice(resp.list, RecentLimit)
              /\ UNCHANGED <<branches, organs, memberCounts, project>>

\* loadData resumes after an await resolved: it stores the data and awaits
\* the next request
LoadDataResolved(m) ==
  /\ m \in BagToSet(net) /\ m.kind = "home" /\ m.stage = "replied" /\ m.resp.ok
  /\ LET what == m.path[1]
         next == NextLoad(what) IN
     /\ ApplyLoad(what, m.resp, m.live)
     /\ loadDataPc' = next
     /\ IF next = "done"
        THEN net' = Drop(net, m) /\ UNCHANGED issued
        ELSE /\ net' = Send(Drop(net, m), LoadDataRequest(next))
             /\ issued' = issued \cup {next}
  /\ UNCHANGED <<sessionVars, loginVars, backendVars, cardVars, historyVars, adminVars>>

\* a catch per request: the error is logged and loadData goes on to the next
\* request
LoadDataCatchContinues(m) ==
  LET next == NextLoad(m.path[1]) IN
  /\ loadDataPc' = next
  /\ IF next = "done"
     THEN net' = Drop(net, m) /\ UNCHANGED issued
     ELSE /\ net' = Send(Drop(net, m), LoadDataRequest(next))
          /\ issued' = issued \cup {next}

\* the catch block of loadData: the error is logged and loadData returns
LoadDataCatch(m) ==
  /\ net' = Drop(net, m)
  /\ loadDataPc' = "failed"
  /\ UNCHANGED issued

\* loadData resumes after an await rejected
LoadDataRejected(m) ==
  /\ m \in BagToSet(net) /\ m.kind = "home" /\ Fails(m)
  /\ LoadDataCatch(m)
  /\ UNCHANGED <<sessionVars, loginVars, backendVars, homeVars, cardVars,
                 historyVars, adminVars>>

\* `memberCounts[branch.type] || 0`, the memberCount prop of a BranchCard
MemberCount(b) == IF b \in DOMAIN memberCounts THEN memberCounts[b] ELSE 0

(* ------------------------------ BranchCard ----------------------------- *)
CardShown(b) == view = "public" /\ \E i \in DOMAIN branches : branches[i].type = b
RECURSIVE Total(_, _)
Total(f, keys) ==
  IF keys = {} THEN 0
  ELSE LET k == CHOOSE x \in keys : TRUE IN f[k] + Total(f, keys \ {k})

\* BranchCard.loadMembers / loadActivities up to the await: the onClick of
\* the 'Voir les membres' and 'Voir les activites' buttons
ClickCard(b, list) ==
  /\ CardShown(b)
  /\ Total(clicks, Buttons) < MaxClicks
  /\ clicks' = [clicks EXCEPT ![<<b, list>>] = @ + 1]
  /\ fetches' = [fetches EXCEPT ![<<b, list>>] = @ + 1]
  /\ net' = Send(net, Request("card", "GET", <<list, b>>, NoAuth, NoBody))
  /\ UNCHANGED <<sessionVars, loginVars, backendVars, homeVars, loadDataPc, issued,
                 cardVars, succeeded, adminVars>>

\* loadMembers / loadActivities after the await resolved
CardResolved(m) ==
  /\ m \in BagToSet(net) /\ m.kind = "card" /\ m.stage = "replied" /\ m.resp.ok
  /\ net' = Drop(net, m)
  /\ LET list == m.path[1]
         b == m.path[2] IN
     /\ succeeded' = [succeeded EXCEPT ![<<b, list>>] = @ + 1]
     /\ IF ~m.live THEN UNCHANGED cardVars
        ELSE IF list = "members"
        THEN /\ cardMembers' = [cardMembers EXCEPT ![b] = m.resp.list]
             /\ showMembers' = [showMembers EXCEPT ![b] = TRUE]
             /\ UNCHANGED <<showActivities, branchActivities>>
        ELSE /\ branchActivities' = [branchActivities EXCEPT ![b] = m.resp.list]
             /\ showActivities' = [showActivities EXCEPT ![b] = TRUE]
             /\ UNCHANGED <<showMembers, cardMembers>>
  /\ UNCHANGED <<sessionVars, loginVars, backendVars, homeVars, loadDataPc, issued,
                 clicks, fetches, adminVars>>

\* loadMembers / loadActivities after the await rejected: the error is logged
CardRejected(m) ==
  /\ m \in BagToSet(net) /\ m.kind = "card" /\ Fails(m)
  /\ net' = Drop(net, m)
  /\ UNCHANGED <<sessionVars, loginVars, backendVars, publicVars, adminVars>>

(* ---------------------------- AdminDashboard --------------------------- *)
\* App renders AdminDashboard only when view === 'admin' && isAuthenticated
DashboardShown == view = "admin" /\ isAuthenticated
AdminKinds ==
  {"stats", "members", "activities", "project", "memberSubmit", "memberDelete",
   "activitySubmit", "activityDelete", "projectSubmit"}
Tabs == {"dashboard", "members", "activities", "project"}
\* the requests awaited by the management view rendered under a tab
KindsOf(tab) ==
  CASE tab = "members" -> {"memberSubmit", "memberDelete"}
    [] tab = "activities" -> {"activitySubmit", "activityDelete"}
    [] tab = "project" -> {"projectSubmit"}
    [] OTHER -> {}

\* AdminDashboard.loadMembers / loadActivities / loadProject up to the await
RefreshRequest(what) == Request(what, "GET", <<what>>, NoAuth, NoBody)

\* setActiveTab: renderContent unmounts the view of the old tab and mounts the
\* view of the new one; ProjectManagement's effect copies the project prop
SetActiveTab(tab) ==
  /\ DashboardShown
  /\ tab # activeTab
  /\ activeTab' = tab
  /\ MountMembers
  /\ MountActivities
  /\ pFormData' = IF tab = "project" THEN adminProject ELSE BlankProject
  /\ pLoading' = FALSE
  /\ net' = Orphan(net, KindsOf(activeTab))
  /\ UNCHANGED <<stats, members, activities, adminProject, lastAlert, dialogVars>>
  /\ UNCHANGED <<sessionVars, loginVars, backendVars, publicVars>>

\* loadStats / loadMembers / loadActivities / loadProject after the await
\* resolved.  A new project prop re-runs ProjectManagement's effect.
DashboardResolved(m) ==
  /\ m \in BagToSet(net) /\ m.kind \in {"stats", "members", "activities", "project"}
  /\ m.stage = "replied" /\ m.resp.ok
  /\ net' = Drop(net, m)
  /\ stats' = IF m.kind = "stats" THEN m.resp.item ELSE stats
  /\ members' = IF m.kind = "members" THEN m.resp.list ELSE members
  /\ activities' = IF m.kind = "activities" THEN m.resp.list ELSE activities
  /\ adminProject' = IF m.kind = "project" THEN m.resp.item ELSE adminProject
  /\ pFormData' = IF m.kind = "project" /\ activeTab = "project"
                  THEN [titre |-> m.resp.item.titre, contenu |-> m.resp.item.contenu]
                  ELSE pFormData
  /\ UNCHANGED <<activeTab, membersVars, activitiesVars, pLoading, lastAlert, dialogVars>>
  /\ UNCHANGED <<sessionVars, loginVars, backendVars, publicVars>>

\* ... after the await rejected: the error is logged
DashboardRejected(m) ==
  /\ m \in BagToSet(net) /\ m.kind \in {"stats", "members", "activities", "project"}
  /\ Fails(m)
  /\ net' = Drop(net, m)
  /\ UNCHANGED <<sessionVars, loginVars, backendVars, publicVars, adminVars>>

(* --------------------------- MembersManagement ------------------------- *)
MembersShown == DashboardShown /\ activeTab = "members"

\* an 'add' button that opens a blank form
ShowMemberFormBlank ==
  /\ MembersShown
  /\ mShowForm' = TRUE
  /\ mAddClicked' = TRUE
  /\ editingMember' = NullRecord
  /\ mFormData' = BlankMemberForm
  /\ UNCHANGED <<dashVars, activitiesVars, projectVars, dialogVars>>
  /\ UNCHANGED <<sessionVars, loginVars, net, backendVars, publicVars>>

\* the onClick of 'Ajouter un membre'
ShowMemberForm ==
  /\ MembersShown
  /\ mShowForm' = TRUE
  /\ mAddClicked' = TRUE
  /\ UNCHANGED <<editingMember, mFormData>>
  /\ UNCHANGED <<dashVars, activitiesVars, projectVars, dialogVars>>
  /\ UNCHANGED <<sessionVars, loginVars, net, backendVars, publicVars>>

\* the onChange handlers of the form's inputs
ChangeMemberForm(input) ==
  /\ MembersShown /\ mShowForm
  /\ mFormData # input
  /\ mFormData' = input
  /\ UNCHANGED <<mShowForm, editingMember, mAddClicked>>
  /\ UNCHANGED <<dashVars, activitiesVars, projectVars, dialogVars>>
  /\ UNCHANGED <<sessionVars, loginVars, net, backendVars, publicVars>>

\* the onClick of 'Annuler'
CancelMemberForm ==
  /\ MembersShown /\ mShowForm
  /\ MountMembers
  /\ UNCHANGED <<dashVars, activitiesVars, projectVars, dialogVars>>
  /\ UNCHANGED <<sessionVars, loginVars, net, backendVars, publicVars>>

\* MembersManagement.handleEdit
HandleEditMember(member) ==
  /\ MembersShown
  /\ editingMember' = member
  /\ mFormData' = [nom |-> member.nom, prenom |-> member.prenom,
                   age |-> NumberToString(member.age), branch |-> member.branch]
  /\ mShowForm' = TRUE
  /\ mAddClicked' = FALSE
  /\ UNCHANGED <<dashVars, activitiesVars, projectVars, dialogVars>>
  /\ UNCHANGED <<sessionVars, loginVars, net, backendVars, publicVars>>

\* a submit that ignores the edit tag and always creates
MemberSubmitAlwaysCreates ==
  Request("memberSubmit", "POST", <<"admin", "members">>, Bearer(localStorage),
          [mFormData EXCEPT !.age = ParseInt(@)])

\* the request MembersManagement.handleSubmit sends
MemberSubmitRequest ==
  LET memberData == [mFormData EXCEPT !.age = ParseInt(@)] IN
  IF editingMember # NullRecord
  THEN Request("memberSubmit", "PUT", <<"admin", "members", editingMember.id>>,
               Bearer(localStorage), memberData)
  ELSE Request("memberSubmit", "POST", <<"admin", "members">>,
               Bearer(localStorage), memberData)

\* MembersManagement.handleSubmit up to its await; the inputs are `required`
SubmitMember ==
  /\ MembersShown /\ mShowForm
  /\ mFormData.nom # "" /\ mFormData.prenom # "" /\ mFormData.age # <<>>
  /\ calls < budget
  /\ calls' = calls + 1
  /\ net' = Send(net, MemberSubmitRequest)
  /\ UNCHANGED <<dashVars, membersVars, activitiesVars, projectVars, lastConfirm, budget>>
  /\ UNCHANGED <<sessionVars, loginVars, backendVars, publicVars>>

\* handleSubmit after its await resolved: the form is reset and onUpdate
\* (AdminDashboard.loadMembers) is called
MemberSubmitResolved(m) ==
  /\ m \in BagToSet(net) /\ m.kind = "memberSubmit" /\ m.stage = "replied" /\ m.resp.ok
  /\ IF m.live THEN MountMembers ELSE UNCHANGED membersVars
  /\ net' = Send(Drop(net, m), RefreshRequest("members"))
  /\ UNCHANGED <<dashVars, activitiesVars, projectVars, dialogVars>>
  /\ UNCHANGED <<sessionVars, loginVars, backendVars, publicVars>>

\* handleSubmit / handleDelete after the await rejected: the error is logged
MemberCallRejected(m) ==
  /\ m \in BagToSet(net) /\ m.kind \in {"memberSubmit", "memberDelete"} /\ Fails(m)
  /\ net' = Drop(net, m)
  /\ UNCHANGED <<sessionVars, loginVars, backendVars, publicVars, adminVars>>

\* a handler that goes on whatever the answer
DeleteUnconfirmed(answer) == TRUE
\* whether handleDelete goes on to the delete call: the window.confirm answer
DeleteConfirmed(answer) == answer

\* MembersManagement.handleDelete up to its await
HandleDeleteMember(memberId, answer) ==
  /\ MembersShown
  /\ lastConfirm' = IF answer THEN "accepted" ELSE "declined"
  /\ IF DeleteConfirmed(answer)
     THEN /\ calls < budget
          /\ calls' = calls + 1
          /\ net' = Send(net, Request("memberDelete", "DELETE",
                                      <<"admin", "members", memberId>>,
                                      Bearer(localStorage), NoBody))
     ELSE UNCHANGED <<net, calls>>
  /\ UNCHANGED <<dashVars, membersVars, activitiesVars, projectVars, budget>>
  /\ UNCHANGED <<sessionVars, loginVars, backendVars, publicVars>>

\* handleDelete after its await resolved: onUpdate is called
MemberDeleteResolved(m) ==
  /\ m \in BagToSet(net) /\ m.kind = "memberDelete" /\ m.stage = "replied" /\ m.resp.ok
  /\ net' = Send(Drop(net, m), RefreshRequest("members"))
  /\ UNCHANGED <<sessionVars, loginVars, backendVars, publicVars, adminVars>>

(* -------------------------- ActivitiesManagement ----------------------- *)
ActivitiesShown == DashboardShown /\ activeTab = "activities"

\* the onClick of 'Ajouter une activite'
ShowActivityForm ==
  /\ ActivitiesShown
  /\ aShowForm' = TRUE
  /\ aAddClicked' = TRUE
  /\ UNCHANGED <<editingActivity, aFormData>>
  /\ UNCHANGED <<dashVars, membersVars, projectVars, dialogVars>>
  /\ UNCHANGED <<sessionVars, loginVars, net, backendVars, publicVars>>

\* the onChange handlers of the form's inputs
ChangeActivityForm(input) ==
  /\ ActivitiesShown /\ aShowForm
  /\ aFormData # input
  /\ aFormData' = input
  /\ UNCHANGED <<aShowForm, editingActivity, aAddClicked>>
  /\ UNCHANGED <<dashVars, membersVars, projectVars, dialogVars>>
  /\ UNCHANGED <<sessionVars, loginVars, net, backendVars, publicVars>>

\* the onClick of 'Annuler'
CancelActivityForm ==
  /\ ActivitiesShown /\ aShowForm
  /\ MountActivities
  /\ UNCHANGED <<dashVars, membersVars, projectVars, dialogVars>>
  /\ UNCHANGED <<sessionVars, loginVars, net, backendVars, publicVars>>

\* ActivitiesManagement.handleEdit
HandleEditActivity(activity) ==
  /\ ActivitiesShown
  /\ editingActivity' = activity
  /\ aFormData' = [titre |-> activity.titre, description |-> activity.description,
                   date_activite |-> DatePart(activity.date_activite),
                   branch |-> OrEmpty(activity.branch),
                   organ |-> OrEmpty(activity.organ),
                   lieu |-> OrEmpty(activity.lieu)]
  /\ aShowForm' = TRUE
  /\ aAddClicked' = FALSE
  /\ UNCHANGED <<dashVars, membersVars, projectVars, dialogVars>>
  /\ UNCHANGED <<sessionVars, loginVars, net, backendVars, publicVars>>

\* the request ActivitiesManagement.handleSubmit sends
ActivitySubmitRequest ==
  LET activityData == [aFormData EXCEPT !.date_activite = ToISOString(@),
                                        !.branch = OrNull(@),
                                        !.organ = OrNull(@)] IN
  IF editingActivity # NullRecord
  THEN Request("activitySubmit", "PUT", <<"admin", "activities", editingActivity.id>>,
               Bearer(localStorage), activityData)
  ELSE Request("activitySubmit", "POST", <<"admin", "activities">>,
               Bearer(localStorage), activityData)

\* ActivitiesManagement.handleSubmit up to its await; titre, date and
\* description are `required`
SubmitActivity ==
  /\ ActivitiesShown /\ aShowForm
  /\ aFormData.titre # "" /\ aFormData.date_activite # <<>> /\ aFormData.description # ""
  /\ calls < budget
  /\ calls' = calls + 1
  /\ net' = Send(net, ActivitySubmitRequest)
  /\ UNCHANGED <<dashVars, membersVars, activitiesVars, projectVars, lastConfirm, budget>>
  /\ UNCHANGED <<sessionVars, loginVars, backendVars, publicVars>>

\* handleSubmit after its await resolved: the form is reset and onUpdate
\* (AdminDashboard.loadActivities) is called
ActivitySubmitResolved(m) ==
  /\ m \in BagToSet(net) /\ m.kind = "activitySubmit" /\ m.stage = "replied" /\ m.resp.ok
  /\ IF m.live THEN MountActivities ELSE UNCHANGED activitiesVars
  /\ net' = Send(Drop(net, m), RefreshRequest("activities"))
  /\ UNCHANGED <<dashVars, membersVars, projectVars, dialogVars>>
  /\ UNCHANGED <<sessionVars, loginVars, backendVars, publicVars>>

\* handleSubmit / handleDelete after the await rejected: the error is logged
ActivityCallRejected(m) ==
  /\ m \in BagToSet(net) /\ m.kind \in {"activitySubmit", "activityDelete"} /\ Fails(m)
  /\ net' = Drop(net, m)
  /\ UNCHANGED <<sessionVars, loginVars, backendVars, publicVars, adminVars>>

\* ActivitiesManagement.handleDelete up to its await
HandleDeleteActivity(activityId, answer) ==
  /\ ActivitiesShown
  /\ lastConfirm' = IF answer THEN "accepted" ELSE "declined"
  /\ IF DeleteConfirmed(answer)
     THEN /\ calls < budget
          /\ calls' = calls + 1
          /\ net' = Send(net, Request("activityDelete", "DELETE",
                                      <<"admin", "activities", activityId>>,
                                      Bearer(localStorage), NoBody))
     ELSE UNCHANGED <<net, calls>>
  /\ UNCHANGED <<dashVars, membersVars, activitiesVars, projectVars, budget>>
  /\ UNCHANGED <<sessionVars, loginVars, backendVars, publicVars>>

\* handleDelete after its await resolved: onUpdate is called
ActivityDeleteResolved(m) ==
  /\ m \in BagToSet(net) /\ m.kind = "activityDelete" /\ m.stage = "replied" /\ m.resp.ok
  /\ net' = Send(Drop(net, m), RefreshRequest("activities"))
  /\ UNCHANGED <<sessionVars, loginVars, backendVars, publicVars, adminVars>>

(* --------------------------- ProjectManagement ------------------------- *)
ProjectShown == DashboardShown /\ activeTab = "project"

\* the onChange handlers of the two required inputs
ChangeProjectForm(input) ==
  /\ ProjectShown
  /\ pFormData # input
  /\ pFormData' = input
  /\ UNCHANGED <<pLoading, lastAlert>>
  /\ UNCHANGED <<dashVars, membersVars, activitiesVars, dialogVars>>
  /\ UNCHANGED <<sessionVars, loginVars, net, backendVars, publicVars>>

\* ProjectManagement.handleSubmit up to its await; the submit button is
\* disabled while loading
SubmitProject ==
  /\ ProjectShown
  /\ ~pLoading
  /\ pFormData.titre # "" /\ pFormData.contenu # ""
  /\ calls < budget
  /\ calls' = calls + 1
  /\ pLoading' = TRUE
  /\ net' = Send(net, Request("projectSubmit", "PUT", <<"admin", "project">>,
                              Bearer(localStorage), pFormData))
  /\ UNCHANGED <<pFormData, lastAlert, lastConfirm, budget>>
  /\ UNCHANGED <<dashVars, membersVars, activitiesVars>>
  /\ UNCHANGED <<sessionVars, loginVars, backendVars, publicVars>>

\* handleSubmit after its await resolved: onUpdate (loadProject), alert, finally
ProjectSubmitResolved(m) ==
  /\ m \in BagToSet(net) /\ m.kind = "projectSubmit" /\ m.stage = "replied" /\ m.resp.ok
  /\ net' = Send(Drop(net, m), RefreshRequest("project"))
  /\ lastAlert' = "Projet pedagogique mis a jour avec succes !"
  /\ pLoading' = IF m.live THEN FALSE ELSE pLoading
  /\ UNCHANGED <<pFormData, dashVars, membersVars, activitiesVars, dialogVars>>
  /\ UNCHANGED <<sessionVars, loginVars, backendVars, publicVars>>

\* a catch block that only logs, as those of the two other views do
ProjectSubmitRejectedSilent(m) ==
  /\ m \in BagToSet(net) /\ m.kind = "projectSubmit" /\ Fails(m)
  /\ net' = Drop(net, m)
  /\ pLoading' = IF m.live THEN FALSE ELSE pLoading
  /\ UNCHANGED <<pFormData, lastAlert, dashVars, membersVars, activitiesVars, dialogVars>>
  /\ UNCHANGED <<sessionVars, loginVars, backendVars, publicVars>>

\* handleSubmit after its await rejected: the error is logged, alert, finally
ProjectSubmitRejected(m) ==
  /\ m \in BagToSet(net) /\ m.kind = "projectSubmit" /\ Fails(m)
  /\ net' = Drop(net, m)
  /\ lastAlert' = "Erreur lors de la mise a jour"
  /\ pLoading' = IF m.live THEN FALSE ELSE pLoading
  /\ UNCHANGED <<pFormData, dashVars, membersVars, activitiesVars, dialogVars>>
  /\ UNCHANGED <<sessionVars, loginVars, backendVars, publicVars>>

(* --------------------------- specifications ---------------------------- *)
Messages == BagToSet(net)
PublicKinds == {"home", "card"}

\* the public view alone, up to the admin click that unmounts it
NextPublic ==
  \/ \E m \in Messages : m.kind \in PublicKinds /\ ServerHandle(m)
  \/ HandleAdminClick
  \/ \E m \in Messages : LoadDataResolved(m)
  \/ \E m \in Messages : LoadDataRejected(m)
  \/ \E b \in BranchKeys, list \in {"members", "activities"} : ClickCard(b, list)
  \/ \E m \in Messages : CardResolved(m)
  \/ \E m \in Messages : CardRejected(m)

NextSession ==
  \/ HandleAdminClick
  \/ \E c \in CredentialInputs \cup {BlankCredentials} : ChangeCredentials(c)
  \/ SubmitLogin
  \/ \E m \in Messages : ServerLogin(m)
  \/ \E m \in Messages : LoginResolved(m)
  \/ \E m \in Messages : LoginRejected(m)
  \/ Logout

NextDashboard ==
  \/ \E m \in Messages : m.kind \in AdminKinds /\ ServerHandle(m)
  \/ \E tab \in Tabs : SetActiveTab(tab)
  \/ \E m \in Messages : DashboardResolved(m)
  \/ \E m \in Messages : DashboardRejected(m)

NextMembers ==
  \/ ShowMemberForm
  \/ \E input \in MemberInputs : ChangeMemberForm(input)
  \/ CancelMemberForm
  \/ \E member \in Range(members) : HandleEditMember(member)
  \/ SubmitMember
  \/ \E m \in Messages : MemberSubmitResolved(m)
  \/ \E m \in Messages : MemberCallRejected(m)
  \/ \E member \in Range(members), answer \in BOOLEAN :
       HandleDeleteMember(member.id, answer)
  \/ \E m \in Messages : MemberDeleteResolved(m)

NextActivities ==
  \/ ShowActivityForm
  \/ \E input \in ActivityInputs : ChangeActivityForm(input)
  \/ CancelActivityForm
  \/ \E activity \in Range(activities) : HandleEditActivity(activity)
  \/ SubmitActivity
  \/ \E m \in Messages : ActivitySubmitResolved(m)
  \/ \E m \in Messages : ActivityCallRejected(m)
  \/ \E activity \in Range(activities), answer \in BOOLEAN :
       HandleDeleteActivity(activity.id, answer)
  \/ \E m \in Messages : ActivityDeleteResolved(m)

NextProject ==
  \/ \E input \in ProjectInputs : ChangeProjectForm(input)
  \/ SubmitProject
  \/ \E m \in Messages : ProjectSubmitResolved(m)
  \/ \E m \in Messages : ProjectSubmitRejected(m)

NextAdmin == NextSession \/ NextDashboard \/ NextMembers \/ NextActivities \/ NextProject

Next == NextPublic \/ NextAdmin

\* the whole application
Spec == Init /\ [][Next]_vars

\* the public view: PublicHome and its BranchCards, on a page loaded without
\* a stored token
InitPublic == Init /\ localStorage = Null
SpecPublic == InitPublic /\ [][NextPublic]_vars

\* login, logout and the dashboard's own fetches, from the page load
SpecSession == Init /\ [][NextSession \/ NextDashboard]_vars

\* The dashboard as it stands after a page load without a stored token, the
\* admin click, a successful login, and the four fetches of the mount effect
\* resolved (a state SpecSession reaches).
DashboardLoaded ==
  /\ localStorage \in Tokens
  /\ token = Null
  /\ authIsAuthenticated = FALSE
  /\ view = "admin"
  /\ isAuthenticated = TRUE
  /\ LoginMounted
  /\ HomeMounted
  /\ net = SetToBag({[LoadDataRequest("branches") EXCEPT !.live = FALSE]})
  /\ loadDataPc = "branches"
  /\ issued = {"branches"}
  /\ clicks = [b \in Buttons |-> 0]
  /\ fetches = [b \in Buttons |-> 0]
  /\ succeeded = [b \in Buttons |-> 0]
  /\ beMembers = <<SeedMember>>
  /\ beActivities = <<SeedActivity>>
  /\ beProject = SeedProject
  /\ nextMemberId = 2
  /\ nextActivityId = 2
  /\ activeTab = "dashboard"
  /\ stats = [members_by_branch |-> CountsByBranch(beMembers)]
  /\ members = beMembers
  /\ activities = beActivities
  /\ adminProject = beProject
  /\ MembersMounted
  /\ ActivitiesMounted
  /\ ProjectMounted
  /\ lastAlert = ""
  /\ lastConfirm = "none"
  /\ calls = 0
InitDashboard == DashboardLoaded /\ budget = MaxCalls

\* the dashboard and its three management views, once loaded
NextForms == Logout \/ NextDashboard \/ NextMembers \/ NextActivities \/ NextProject
SpecForms == InitDashboard /\ [][NextForms]_vars

\* the members view alone, with room for two mutation calls
InitMembers == DashboardLoaded /\ budget = MaxMemberCalls
SpecMembers == InitMembers /\ [][NextDashboard \/ NextMembers]_vars

(* ------------------------- steps, as observed -------------------------- *)
\* how many requests of a kind are in flight
KindCount(bag, kind) == Copies(bag, {m \in BagToSet(bag) : m.kind = kind})
\* this step sends request m
IssuedNow(m) ==
  /\ m \in BagToSet(net') /\ m.stage = "sent"
  /\ CopiesIn(m, net') > CopiesIn(m, net)
  /\ KindCount(net', m.kind) > KindCount(net, m.kind)
\* this step hands the outcome of request m to the handler awaiting it
Consumed(m) ==
  /\ m \in BagToSet(net)
  /\ CopiesIn(m, net') < CopiesIn(m, net)
  /\ KindCount(net', m.kind) < KindCount(net, m.kind)
Succeeded(m) == Consumed(m) /\ ~Fails(m)
Failed(m) == Consumed(m) /\ Fails(m)

(* ------------------------------- session ------------------------------- *)
\* C1 (as claimed): a token is stored iff both authenticated flags are true
C1_TokenAndFlagsAgree ==
  (localStorage # Null) <=> (isAuthenticated /\ authIsAuthenticated)

\* C2 (as claimed): a click on the dashboard's logout button clears the stored
\* token and resets the view selector to 'public'
C2_LogoutResetsView ==
  [][Logout => (localStorage' = Null /\ view' = "public")]_vars

\* C3 (as claimed): after a login with token t, also one made through the
\* login view, the session store is authenticated and holds t; after a logout
\* it is not authenticated and holds no token
C3_SessionStorePostconditions ==
  [][/\ \A m \in Messages :
          Succeeded(m) /\ m.kind = "login" =>
            authIsAuthenticated' /\ token' = m.resp.item.access_token
     /\ Logout => ~authIsAuthenticated' /\ token' = Null]_vars

LoginState ==
  IF loading THEN "submitting" ELSE IF error # "" THEN "error" ELSE "idle"
\* C6: the login view is idle, submitting or in error; it is submitting
\* exactly while its one login request is outstanding; a submit is taken only
\* outside submitting and clears the error; a response ends submitting; the
\* login callback runs on a successful response only, with its token
C6_LoginMachine ==
  /\ [](/\ KindCount(net, "login") <= 1
        /\ (view = "login" => (loading <=> KindCount(net, "login") = 1))
        /\ (LoginState = "submitting" => error = ""))
  /\ [][/\ \A m \in Messages' :
             IssuedNow(m) /\ m.kind = "login" =>
               LoginState # "submitting" /\ LoginState' = "submitting" /\ error' = ""
        /\ \A m \in Messages :
             Consumed(m) /\ m.kind = "login" =>
               /\ LoginState = "submitting" /\ LoginState' # "submitting"
               /\ ~Fails(m) => /\ localStorage' = m.resp.item.access_token
                               /\ isAuthenticated' /\ view' = "admin"
        /\ (view' = "admin" /\ view # "admin") =>
             \E m \in Messages : Succeeded(m) /\ m.kind = "login"]_vars
\* a second submit, after a rejected one, is outstanding
C6_Witness ==
  /\ view = "login" /\ LoginState = "submitting"
  /\ KindCount(net, "login") = 1

(* ----------------------------- admin calls ----------------------------- *)
AdminEndpoint(m) == m.path[1] = "admin"

\* C4 (as claimed): whenever a request to an admin-only endpoint is sent, a
\* token is in storage and the Authorization header is 'Bearer <that token>'
C4_AdminRequestsCarryToken ==
  [][\A m \in Messages' :
       IssuedNow(m) /\ AdminEndpoint(m) =>
         localStorage' # Null /\ m.auth = Bearer(localStorage')]_vars

\* C9: in the Members and Activities views a submit sends exactly one call, a
\* PUT to /admin/<entity>/{id} when the form carries an edit tag and a POST
\* otherwise; when the call succeeds the view that sent it (if still mounted)
\* has its form blank, hidden and untagged, exactly one refresh GET of the
\* list is sent, and the list shown changes only when a GET response is applied
C9_SubmitThenRefresh ==
  [][/\ \A m \in Messages' :
          IssuedNow(m) /\ m.kind = "memberSubmit" =>
            /\ BagCardinality(net') = BagCardinality(net) + 1
            /\ IF editingMember # NullRecord
               THEN m.method = "PUT" /\ m.path = <<"admin", "members", editingMember.id>>
               ELSE m.method = "POST" /\ m.path = <<"admin", "members">>
     /\ \A m \in Messages' :
          IssuedNow(m) /\ m.kind = "activitySubmit" =>
            /\ BagCardinality(net') = BagCardinality(net) + 1
            /\ IF editingActivity # NullRecord
               THEN /\ m.method = "PUT"
                    /\ m.path = <<"admin", "activities", editingActivity.id>>
               ELSE m.method = "POST" /\ m.path = <<"admin", "activities">>
     /\ \A m \in Messages :
          Succeeded(m) /\ m.kind = "memberSubmit" =>
            /\ IF m.live
               THEN mFormData' = BlankMemberForm /\ ~mShowForm' /\ editingMember' = NullRecord
               ELSE UNCHANGED membersVars
            /\ net' = Send(Drop(net, m), RefreshRequest("members"))
     /\ \A m \in Messages :
          Succeeded(m) /\ m.kind = "activitySubmit" =>
            /\ IF m.live
               THEN /\ aFormData' = BlankActivityForm
                    /\ ~aShowForm' /\ editingActivity' = NullRecord
               ELSE UNCHANGED activitiesVars
            /\ net' = Send(Drop(net, m), RefreshRequest("activities"))
     /\ members' # members =>
          \E m \in Messages : Succeeded(m) /\ m.kind = "members" /\ members' = m.resp.list
     /\ activities' # activities =>
          \E m \in Messages :
            Succeeded(m) /\ m.kind = "activities" /\ activities' = m.resp.list]_vars
\* a create has succeeded: the form is reset, the refresh is on its way and
\* the list shown is still the old one
C9_Witness ==
  /\ activeTab = "members" /\ calls = 1
  /\ ~mShowForm /\ mFormData = BlankMemberForm /\ editingMember = NullRecord
  /\ Len(beMembers) = 2 /\ members = <<SeedMember>>
  /\ net = SetToBag({[LoadDataRequest("branches") EXCEPT !.live = FALSE],
                     RefreshRequest("members")})

\* C10: a DELETE is sent only by a step in which the prompt was confirmed; a
\* declined prompt sends nothing and changes neither the lists shown nor the
\* backend; a confirmed delete that succeeds sends the refresh GET
C10_DeleteNeedsConfirm ==
  [][/\ \A m \in Messages' :
          IssuedNow(m) /\ m.method = "DELETE" =>
            lastConfirm' = "accepted" /\ m.kind \in {"memberDelete", "activityDelete"}
     /\ (lastConfirm' = "declined" /\ lastConfirm # "declined") =>
          UNCHANGED <<net, calls, members, activities, backendVars>>
     /\ \A m \in Messages :
          Succeeded(m) /\ m.kind = "memberDelete" =>
            net' = Send(Drop(net, m), RefreshRequest("members"))
     /\ \A m \in Messages :
          Succeeded(m) /\ m.kind = "activityDelete" =>
            net' = Send(Drop(net, m), RefreshRequest("activities"))]_vars
\* the prompt of an activity's delete button was declined
C10_Witness ==
  /\ activeTab = "activities" /\ lastConfirm = "declined"
  /\ calls = 0 /\ activities = <<SeedActivity>> /\ beActivities = <<SeedActivity>>
  /\ KindCount(net, "activityDelete") = 0

(* ----------------------------- public view ----------------------------- *)
\* whether the list a card's button toggles is displayed
ListShown(b, list) == IF list = "members" THEN showMembers[b] ELSE showActivities[b]
\* C7 (as claimed): once the fetches of n >= 1 clicks on a card's button have
\* succeeded, exactly one GET was sent and the list is visible iff n is odd
C7_ToggleAlternates ==
  \A b \in BranchKeys, list \in {"members", "activities"} :
    LET n == clicks[<<b, list>>] IN
    (view = "public" /\ n >= 1 /\ succeeded[<<b, list>>] = fetches[<<b, list>>])
      => (fetches[<<b, list>>] = 1 /\ (ListShown(b, list) <=> n % 2 = 1))

HomeInFlight == KindCount(net, "home")
AllLoads == Range(LoadDataOrder)
\* C8 (as claimed): all four requests are sent whatever the outcome of the others
C8_FourIndependentRequests == HomeInFlight = 0 => issued = AllLoads

\* C8 (amended): the four requests are sent one at a time, in the order
\* branches, members, project, activities, each only after the one before it
\* succeeded and its data was stored; a failure is swallowed and ends loadData,
\* so the later requests are never sent, and what was stored stays rendered
C8_SequentialRequests ==
  /\ [](/\ \E k \in DOMAIN LoadDataOrder : issued = {LoadDataOrder[i] : i \in 1..k}
        /\ HomeInFlight <= 1
        /\ HomeInFlight = 1 <=> loadDataPc \in AllLoads
        /\ \A k \in DOMAIN LoadDataOrder :
             loadDataPc = LoadDataOrder[k] => issued = {LoadDataOrder[i] : i \in 1..k}
        /\ loadDataPc = "done" => issued = AllLoads
        /\ view = "public" =>
             /\ "members" \in issued => branches = BackendBranches /\ organs = BackendOrgans
             /\ "project" \in issued => DOMAIN memberCounts = BranchKeys
             /\ "activities" \in issued => project = beProject
             /\ loadDataPc = "done" => recentActivities = Slice(beActivities, RecentLimit))
  /\ [][/\ loadDataPc \in {"failed", "done"} => UNCHANGED <<loadDataPc, issued>>
        /\ \A m \in Messages :
             Failed(m) /\ m.kind = "home" =>
               loadDataPc' = "failed" /\ UNCHANGED <<issued, homeVars>>]_vars
\* the members request failed: branches and organs stay rendered, and the
\* project and activities requests were never sent
C8_Witness ==
  /\ view = "public" /\ loadDataPc = "failed" /\ HomeInFlight = 0
  /\ issued = {"branches", "members"}
  /\ branches = BackendBranches /\ memberCounts = NoCounts /\ project = NullRecord

\* the members view in runs where no call fails: every response is a success
\* and is delivered
NextRefresh ==
  \/ \E m \in Messages : m.kind \in AdminKinds /\ ServerHandle(m)
  \/ \E tab \in Tabs : SetActiveTab(tab)
  \/ \E m \in Messages : DashboardResolved(m)
  \/ ShowMemberForm
  \/ \E input \in MemberInputs : ChangeMemberForm(input)
  \/ CancelMemberForm
  \/ \E member \in Range(members) : HandleEditMember(member)
  \/ SubmitMember
  \/ \E m \in Messages : MemberSubmitResolved(m)
  \/ \E member \in Range(members), answer \in BOOLEAN :
       HandleDeleteMember(member.id, answer)
  \/ \E m \in Messages : MemberDeleteResolved(m)
SpecRefresh == InitMembers /\ [][NextRefresh]_vars

\* From the page load through the login to the dashboard, its tabs, and one
\* kind of mutation per management view (the two deletes, the project update).
NextMount ==
  \/ HandleAdminClick
  \/ \E c \in CredentialInputs : ChangeCredentials(c)
  \/ SubmitLogin
  \/ \E m \in Messages : ServerLogin(m)
  \/ \E m \in Messages : LoginResolved(m)
  \/ \E m \in Messages : LoginRejected(m)
  \/ NextDashboard
  \/ \E member \in Range(members), answer \in BOOLEAN :
       HandleDeleteMember(member.id, answer)
  \/ \E m \in Messages : MemberDeleteResolved(m)
  \/ \E m \in Messages : MemberCallRejected(m)
  \/ \E activity \in Range(activities), answer \in BOOLEAN :
       HandleDeleteActivity(activity.id, answer)
  \/ \E m \in Messages : ActivityDeleteResolved(m)
  \/ \E m \in Messages : ActivityCallRejected(m)
  \/ NextProject
SpecMount == InitPublic /\ [][NextMount]_vars

\* The public view loading against a backend that holds any list of up to
\* MaxMembers members, each of one of the four branches or of another one.
MemberBranches == BranchKeys \cup {"autre"}
MemberLists ==
  UNION {[1..n -> MemberBranches] : n \in 0..MaxMembers}
MembersOf(bs) == [i \in DOMAIN bs |-> [SeedMember EXCEPT !.id = i, !.branch = bs[i]]]
InitCounts ==
  /\ localStorage = Null
  /\ token = Null
  /\ authIsAuthenticated = FALSE
  /\ view = "public"
  /\ isAuthenticated = FALSE
  /\ LoginMounted
  /\ HomeMounted
  /\ net = SetToBag({LoadDataRequest("branches")})
  /\ loadDataPc = "branches"
  /\ issued = {"branches"}
  /\ clicks = [b \in Buttons |-> 0]
  /\ fetches = [b \in Buttons |-> 0]
  /\ succeeded = [b \in Buttons |-> 0]
  /\ \E bs \in MemberLists : beMembers = MembersOf(bs)
  /\ beActivities = <<SeedActivity>>
  /\ beProject = SeedProject
  /\ nextMemberId = Len(beMembers) + 1
  /\ nextActivityId = 2
  /\ DashboardMounted
  /\ MembersMounted
  /\ ActivitiesMounted
  /\ ProjectMounted
  /\ lastAlert = ""
  /\ lastConfirm = "none"
  /\ calls = 0
  /\ budget = MaxCalls
NextCounts ==
  \/ \E m \in Messages : m.kind = "home" /\ ServerHandle(m)
  \/ \E m \in Messages : LoadDataResolved(m)
  \/ \E m \in Messages : LoadDataRejected(m)
SpecCounts == InitCounts /\ [][NextCounts]_vars

(* --------------------------- failed mutations -------------------------- *)
MutationKinds ==
  {"memberSubmit", "memberDelete", "activitySubmit", "activityDelete", "projectSubmit"}
ProjectErrorAlert == "Erreur lors de la mise a jour"
\* the step sends no request
NothingSent == \A k \in AdminKinds : KindCount(net', k) <= KindCount(net, k)

\* C11 (as claimed): a failed create, update or delete call of any of the three
\* management views changes nothing the user sees: form visibility, fields and
\* edit tag stay, no refresh is sent, no error is shown
C11_FailureOnlyLogged ==
  [][\A m \in Messages :
       Failed(m) /\ m.kind \in MutationKinds =>
         /\ UNCHANGED <<membersVars, activitiesVars, pFormData, lastAlert, dashVars>>
         /\ NothingSent]_vars

\* C11 (amended): a failed call of the Members or Activities view is only
\* logged and changes nothing the user sees; a failed call of the Project view
\* leaves the fields and sends no refresh, but shows the alert 'Erreur lors de
\* la mise a jour' and re-enables the submit button
C11_FailureLoggedProjectAlerts ==
  [][\A m \in Messages :
       Failed(m) /\ m.kind \in MutationKinds =>
         /\ UNCHANGED <<membersVars, activitiesVars, pFormData, dashVars>>
         /\ NothingSent
         /\ net' = Drop(net, m)
         /\ IF m.kind = "projectSubmit"
            THEN /\ lastAlert' = ProjectErrorAlert
                 /\ m.live => ~pLoading'
            ELSE UNCHANGED <<lastAlert, pLoading>>]_vars
\* the update of the project failed: the alert is up, the typed fields are
\* kept, the button is enabled again and the project shown is the old one
C11_Witness ==
  /\ activeTab = "project" /\ lastAlert = ProjectErrorAlert
  /\ pFormData \in ProjectInputs /\ ~pLoading
  /\ calls = 1 /\ Messages = {[LoadDataRequest("branches") EXCEPT !.live = FALSE]}
  /\ adminProject = SeedProject /\ beProject = SeedProject

(* --------------------------- dashboard fetches ------------------------- *)
FetchKinds == {"stats", "members", "activities", "project"}
\* the mutations after which the dashboard re-fetches a collection
MutationsOf(what) ==
  CASE what = "members" -> {"memberSubmit", "memberDelete"}
    [] what = "activities" -> {"activitySubmit", "activityDelete"}
    [] what = "project" -> {"projectSubmit"}
    [] OTHER -> {}

\* C12: mounting the dashboard sends each of the four fetches once; a tab
\* switch sends nothing; afterwards a collection is fetched again only when a
\* mutation of its own view succeeded, once per mutation; a fetch that fails
\* leaves the others in flight and changes nothing, and a fetch that succeeds
\* is applied whatever became of the others
C12_FetchOnceThenOnRefresh ==
  [][/\ (view # "admin" /\ view' = "admin") =>
          \A k \in FetchKinds : KindCount(net', k) = KindCount(net, k) + 1
     /\ activeTab' # activeTab => NothingSent
     /\ (view = "admin" /\ view' = "admin") =>
          \A k \in FetchKinds :
            KindCount(net', k) > KindCount(net, k) =>
              /\ KindCount(net', k) = KindCount(net, k) + 1
              /\ \E m \in Messages : Succeeded(m) /\ m.kind \in MutationsOf(k)
     /\ \A m \in Messages :
          Failed(m) /\ m.kind \in FetchKinds =>
            net' = Drop(net, m) /\ UNCHANGED dashVars
     /\ \A m \in Messages :
          Succeeded(m) /\ m.kind \in FetchKinds =>
            /\ net' = Drop(net, m)
            /\ m.kind = "stats" => stats' = m.resp.item
            /\ m.kind = "members" => members' = m.resp.list
            /\ m.kind = "activities" => activities' = m.resp.list
            /\ m.kind = "project" => adminProject' = m.resp.item]_vars
\* the stats fetch of the mount failed; the three other results are shown,
\* also after a switch of tab
C12_Witness ==
  /\ view = "admin" /\ activeTab = "members" /\ calls = 0
  /\ \A k \in FetchKinds : KindCount(net, k) = 0
  /\ stats = NullRecord
  /\ members = <<SeedMember>> /\ activities = <<SeedActivity>> /\ adminProject = SeedProject

(* ----------------------------- member counts --------------------------- *)
\* the members of branch k in a list, counted without going through the list
BranchSize(list, k) == Cardinality({i \in DOMAIN list : list[i].branch = k})
\* the member list has been fetched and its counts stored
CountsLoaded == "project" \in issued

\* C13: the count shown for each of the four branches is the number of
\* fetched members whose branch is that key, so that a member of any other
\* branch is counted nowhere; before the member list has loaded it is 0
C13_MemberCounts ==
  view = "public" =>
    \A k \in BranchKeys :
      MemberCount(k) = IF CountsLoaded THEN BranchSize(beMembers, k) ELSE 0
\* the branch cards are shown with the counts of a list of two members, one of
\* the troupe and one of a branch that is none of the four
C13_Witness ==
  /\ view = "public" /\ CountsLoaded /\ \A k \in BranchKeys : CardShown(k)
  /\ Len(beMembers) = 2 /\ beMembers[1].branch = "autre" /\ beMembers[2].branch = "troupe"
  /\ MemberCount("troupe") = 1
  /\ \A k \in BranchKeys \ {"troupe"} : MemberCount(k) = 0

(* ------------------------- refreshes out of order ---------------------- *)
MemberCallKinds == {"members", "memberSubmit", "memberDelete"}
\* every member call and every fetch of the member list has completed
MembersQuiet == \A k \in MemberCallKinds : KindCount(net, k) = 0

\* C14 (as claimed): in runs without a failed call, once every request about
\* members has completed, the list the admin view shows is the backend's list
C14_DisplayedListCurrent == MembersQuiet => members = beMembers

(* ---------------------------- view selector ---------------------------- *)
\* C15: the view starts at 'public', also with a token in storage; leaving
\* 'public' leads to 'login'; the view becomes 'admin' only from 'login', in
\* the step that handles a successful login response, which stores that
\* response's token and sets the root flag; so 'admin' implies the root flag
C15_AdminOnlyByLogin ==
  /\ view = "public"
  /\ [][/\ (view = "public" /\ view' # "public") => view' = "login"
        /\ (view # "admin" /\ view' = "admin") =>
             /\ view = "login"
             /\ \E m \in Messages :
                  /\ Succeeded(m) /\ m.kind = "login"
                  /\ localStorage' = m.resp.item.access_token
             /\ isAuthenticated']_vars
  /\ [](view = "admin" => isAuthenticated)
\* the page was loaded with a token in storage, and the dashboard is shown
\* after a login that replaced it
C15_Witness ==
  /\ view = "admin" /\ isAuthenticated
  /\ token \in StaleTokens /\ localStorage \in Tokens

(* ----------------------------- 'add' button ---------------------------- *)
\* C16: the 'add' button of the Members and Activities views changes only
\* the form's visibility, not the edit tag nor the fields; a submit sends an
\* update for the record of the edit tag when the tag is set, also when
\* 'add' was clicked after the edit, and a create only when the tag is null
C16_AddKeepsEditTag ==
  [][/\ ShowMemberForm =>
          mShowForm' /\ UNCHANGED <<editingMember, mFormData, net, dashVars>>
     /\ ShowActivityForm =>
          aShowForm' /\ UNCHANGED <<editingActivity, aFormData, net, dashVars>>
     /\ \A m \in BagToSet(net') :
          IssuedNow(m) /\ m.kind = "memberSubmit" =>
            IF editingMember = NullRecord
            THEN m.method = "POST" /\ m.path = <<"admin", "members">>
            ELSE m.method = "PUT" /\ m.path = <<"admin", "members", editingMember.id>>
     /\ \A m \in BagToSet(net') :
          IssuedNow(m) /\ m.kind = "activitySubmit" =>
            IF editingActivity = NullRecord
            THEN m.method = "POST" /\ m.path = <<"admin", "activities">>
            ELSE m.method = "PUT"
                 /\ m.path = <<"admin", "activities", editingActivity.id>>]_vars
\* edit of the seed member, then 'add', then submit: an update of that member
\* is in flight and the form still carries its tag
C16_Witness ==
  /\ activeTab = "members" /\ mShowForm /\ mAddClicked
  /\ editingMember = SeedMember
  /\ \E m \in Messages :
       /\ m.kind = "memberSubmit" /\ m.live /\ m.method = "PUT"
       /\ m.path = <<"admin", "members", SeedMember.id>>

(* ---------------------------- double submit ---------------------------- *)
SubmitKinds == {"memberSubmit", "activitySubmit", "projectSubmit"}
\* the requests of a kind that the mounted form is still awaiting
Pending(kind) == Copies(net, {m \in Messages : m.kind = kind /\ m.live})

\* C17 (as claimed): no management form has more than one of its create or
\* update requests outstanding
C17_OneSubmitPending == \A k \in SubmitKinds : Pending(k) <= 1

(* ------------------------------ statistics ----------------------------- *)
\* C18 (as claimed): after a mutation of the members and once the refresh it
\* triggered has been applied, the per-branch statistics of the dashboard tab
\* are the per-branch counts of the member list shown
C18_StatsMatchMembers ==
  (calls >= 1 /\ MembersQuiet /\ members = beMembers /\ stats # NullRecord) =>
    \A k \in BranchKeys : stats.members_by_branch[k] = BranchSize(members, k)

====
